---- MODULE Spec2Model ----
(***************************************************************************)
(* Model of memory-system.py: the per-platform persistent memory libraries *)
(* (PlatformMemoryManager), the shared collaboration library and the       *)
(* suggestion workflow of SovereignCollaborationSystem.                    *)
(***************************************************************************)
EXTENDS Integers, Sequences, FiniteSets, TLC

VARIABLES memories,             \* platform id -> that platform's library (self.memories)
          shared_memories,      \* shared_library.memories
          pending_suggestions,  \* the suggestion list
          disk,                 \* file name -> file content
          result,               \* what the last call returned or raised
          threads               \* the calls in progress (concurrent executions)

vars == <<memories, shared_memories, pending_suggestions, disk, result, threads>>

(* ----------------------------- bounds ---------------------------------- *)
MaxMemories == 2
MaxShared == 2
MaxSuggestions == 2
\* the number of calls running concurrently
NThreads == 2
\* the suggestions the hub holds while the platform libraries are exercised
MaxFrame == 1

(* ----------------------------- inputs ---------------------------------- *)
\* the registered platform ids (a subset of the five of the source)
Platforms == {"chatgpt", "claude"}
\* ids a caller may pass, one of them not registered
PlatformIds == Platforms \cup {"grok"}
\* calls of ai_sovereign_save: content, memory_type, important, and the value
\* datetime.utcnow() returns during the call
SaveCases == {[content |-> "Coffee with oat milk", memory_type |-> "preference",
               important |-> TRUE, now |-> [sec |-> 7, us |-> 0]],
              [content |-> "tea", memory_type |-> "general",
               important |-> FALSE, now |-> [sec |-> 8, us |-> 250000]]}
Decisions == {"ACCEPT", "accept", "REJECT", "maybe"}
\* outcomes of open(file, 'w') followed by json.dump
IOOutcomes == {"ok", "open_fails", "write_fails"}

\* the files of the system
memory_file(p) == "memories/" \o p \o "_sovereign.json"
SharedFile == "memories/shared_collaboration.json"
SuggestionsFile == "memories/memory_suggestions.json"
Files == {memory_file(p) : p \in Platforms} \cup {SharedFile, SuggestionsFile}

(* ------------------------- Python values -------------------------------- *)
PyStr(s) == [k |-> "str", v |-> s]
PyBool(b) == [k |-> "bool", v |-> IF b THEN "True" ELSE "False"]
PyNone == [k |-> "NoneType", v |-> "None"]
PyInt(n) == [k |-> "int", v |-> ToString(n)]
\* a dict: its items, a function from the keys
PyDict(items) == [k |-> "dict", v |-> items]
PyDatetime(dt) == [k |-> "datetime", v |-> dt]

\* bool(x)
Truthy(x) ==
  CASE x.k = "NoneType" -> FALSE
    [] x.k = "bool" -> x.v = "True"
    [] x.k = "int" -> x.v # "0"
    [] x.k = "str" -> x.v # ""
    [] x.k = "dict" -> DOMAIN x.v # {}
    [] OTHER -> TRUE

\* the number a bool or an int compares as
NumberOf(x) == IF x.k = "bool" THEN (IF x.v = "True" THEN "1" ELSE "0") ELSE x.v

\* x == y
PyEq(x, y) ==
  IF x.k \in {"bool", "int"} /\ y.k \in {"bool", "int"}
    THEN NumberOf(x) = NumberOf(y)
    ELSE x.k = y.k /\ x.v = y.v

\* x is y, for the singletons True, False and None
PyIs(x, y) == x.k = y.k /\ x.v = y.v

\* d.get(key, default)
dict_get(d, key, default) == IF key \in DOMAIN d.v THEN d.v[key] ELSE default

\* calls of human_suggest_memory: content, reason, and the clock during the
\* call; the human proposes these in turn
SuggestCases == <<[content |-> "poetry book", reason |-> PyStr("central"),
                   now |-> [sec |-> 7, us |-> 0]],
                  [content |-> "coffee", reason |-> PyNone,
                   now |-> [sec |-> 8, us |-> 250000]]>>
\* calls of ai_decide_on_suggestion: platform_id, reason, and the clock
DecideCases == {[platform_id |-> "chatgpt", reason |-> PyStr("relevant"),
                 now |-> [sec |-> 9, us |-> 0]],
                [platform_id |-> "claude", reason |-> PyNone,
                 now |-> [sec |-> 9, us |-> 500000]],
                [platform_id |-> "grok", reason |-> PyNone,
                 now |-> [sec |-> 9, us |-> 0]]}

(* ------------------------------ str ------------------------------------- *)
UppercaseLetters ==
  <<"A", "B", "C", "D", "E", "F", "G", "H", "I", "J", "K", "L", "M",
    "N", "O", "P", "Q", "R", "S", "T", "U", "V", "W", "X", "Y", "Z">>
LowercaseLetters ==
  <<"a", "b", "c", "d", "e", "f", "g", "h", "i", "j", "k", "l", "m",
    "n", "o", "p", "q", "r", "s", "t", "u", "v", "w", "x", "y", "z">>

\* the i-th character of a str
CharAt(s, i) == SubSeq(s, i, i)

\* the place of a character in an alphabet, 0 when it is not in it
LetterIndex(alphabet, c) ==
  IF \E i \in DOMAIN alphabet : alphabet[i] = c
    THEN CHOOSE i \in DOMAIN alphabet : alphabet[i] = c
    ELSE 0

UpperChar(c) ==
  LET i == LetterIndex(LowercaseLetters, c)
  IN IF i = 0 THEN c ELSE UppercaseLetters[i]

LowerChar(c) ==
  LET i == LetterIndex(UppercaseLetters, c)
  IN IF i = 0 THEN c ELSE LowercaseLetters[i]

\* a comparison of the decision as it was typed
Upper_typed(s) == s

\* str.upper()
RECURSIVE Upper(_)
Upper(s) ==
  IF s = "" THEN "" ELSE UpperChar(CharAt(s, 1)) \o Upper(SubSeq(s, 2, Len(s)))

\* a search that compares the text as it was typed
Lower_typed(s) == s

\* str.lower()
RECURSIVE Lower(_)
Lower(s) ==
  IF s = "" THEN "" ELSE LowerChar(CharAt(s, 1)) \o Lower(SubSeq(s, 2, Len(s)))

\* needle in hay, for two str
str_contains(needle, hay) ==
  \E i \in 0..(Len(hay) - Len(needle)) : SubSeq(hay, i + 1, i + Len(needle)) = needle

\* json encoding of a value: a token of the JSON text
json_dumps(x) ==
  CASE x.k = "str" -> [tok |-> "string", text |-> x.v]
    [] x.k = "bool" -> [tok |-> "literal", text |-> IF x.v = "True" THEN "true" ELSE "false"]
    [] x.k = "NoneType" -> [tok |-> "literal", text |-> "null"]
    [] OTHER -> [tok |-> "number", text |-> x.v]

\* json decoding of a token
json_loads(t) ==
  CASE t.tok = "string" -> [k |-> "str", v |-> t.text]
    [] t.tok = "literal" /\ t.text = "true" -> [k |-> "bool", v |-> "True"]
    [] t.tok = "literal" /\ t.text = "false" -> [k |-> "bool", v |-> "False"]
    [] t.tok = "literal" /\ t.text = "null" -> [k |-> "NoneType", v |-> "None"]
    [] OTHER -> [k |-> "int", v |-> t.text]

\* isoformat(timespec='seconds'): the microseconds are dropped
isoformat_seconds(dt) == <<dt.sec>>

\* datetime.isoformat(): the fraction is printed only when microsecond # 0
isoformat(dt) == IF dt.us = 0 THEN <<dt.sec>> ELSE <<dt.sec, dt.us>>

\* datetime.fromisoformat()
fromisoformat(s) ==
  IF Len(s) = 1 THEN [sec |-> s[1], us |-> 0] ELSE [sec |-> s[1], us |-> s[2]]

(* ------------------------- MemoryLibrary -------------------------------- *)
\* a dict is a sequence of entries in insertion order, keys unique
Keys(d) == {d[i].id : i \in DOMAIN d}

IndexOf(d, id) == CHOOSE i \in DOMAIN d : d[i].id = id

\* self.memories[memory_id] = {...}
MemoryLibrary_store(mem, memory_id, content, metadata, now) ==
  LET rec == [id |-> memory_id, content |-> content,
              metadata |-> metadata, timestamp |-> now]
  IN IF memory_id \in Keys(mem)
       THEN [mem EXCEPT ![IndexOf(mem, memory_id)] = rec]
       ELSE Append(mem, rec)

\* retrieve(memory_id): the stored dict
retrieve(rec) ==
  PyDict([content |-> PyStr(rec.content), metadata |-> PyDict(rec.metadata),
          timestamp |-> PyDatetime(rec.timestamp)])

(* -------------------- SearchableMemoryArchiver -------------------------- *)
\* the loop of search_memories over the first n ids of the library
RECURSIVE search_loop(_, _, _)
search_loop(mem, query, n) ==
  IF n = 0 THEN <<>>
  ELSE LET results == search_loop(mem, query, n - 1)
           memory == retrieve(mem[n])
       IN IF Truthy(memory) /\ str_contains(Lower(query), Lower(memory.v.content.v))
            THEN Append(results, mem[n])
            ELSE results

search_memories(mem, query) == search_loop(mem, query, Len(mem))

(* --------------------------- MemoryLibrarian ---------------------------- *)
\* a test of the flag by == True
important_is_true_eq(v) == PyEq(v, PyBool(TRUE))

\* metadata.get("important") is True
important_is_true(v) == PyIs(v, PyBool(TRUE))

decide_action(memory_data) ==
  LET metadata == IF Truthy(memory_data)
                    THEN dict_get(memory_data, "metadata", PyDict(<<>>))
                    ELSE PyDict(<<>>)
  IN IF metadata.k = "dict"
       THEN IF PyEq(dict_get(metadata, "type", PyNone), PyStr("preference"))
              THEN "KEEP"
            ELSE IF important_is_true(dict_get(metadata, "important", PyNone))
              THEN "KEEP"
            ELSE "DISCARD"
       ELSE "DISCARD"

\* the lines purge_unimportant prints: the id and the verdict of each
verdicts(mem) ==
  [i \in DOMAIN mem |->
     LET memory == retrieve(mem[i])
         decision == decide_action(IF Truthy(memory) THEN memory ELSE PyDict(<<>>))
     IN <<mem[i].id, IF decision = "KEEP" THEN "kept" ELSE "discarded">>]

(* ---------------------- SimpleAIMemoryInterface ------------------------- *)
\* the lines ai_recall_memories adds for the first n memories found
RECURSIVE recall_lines(_, _)
recall_lines(found, n) ==
  IF n = 0 THEN ""
  ELSE recall_lines(found, n - 1) \o "- " \o found[n].content \o " (Type: "
       \o dict_get(PyDict(found[n].metadata), "type", PyStr("unknown")).v \o ")\n"

ai_recall_memories(mem, query) ==
  LET found == IF Truthy(PyStr(query)) THEN search_memories(mem, query) ELSE mem
  IN [memories |-> found,
      text |-> IF found = <<>> THEN "No memories found."
               ELSE "RECALLED MEMORIES:\n" \o recall_lines(found, Len(found))]

(* --------------------- PersistentMemoryLibrary -------------------------- *)
NoFile == [kind |-> "absent", data |-> <<>>]
PartialFile == [kind |-> "partial", data |-> <<>>]

\* a dump of the library as it was before the newest record was stored
save_data_before(mem) ==
  [kind |-> "json",
   data |-> [i \in 1..(Len(mem) - 1) |->
              [id |-> mem[i].id,
               content |-> json_dumps(PyStr(mem[i].content)),
               metadata |-> [f \in DOMAIN mem[i].metadata |->
                               json_dumps(mem[i].metadata[f])],
               timestamp |-> isoformat(mem[i].timestamp)]]]

\* the text json.dump writes for the library
save_data(mem) ==
  [kind |-> "json",
   data |-> [i \in DOMAIN mem |->
              [id |-> mem[i].id,
               content |-> json_dumps(PyStr(mem[i].content)),
               metadata |-> [f \in DOMAIN mem[i].metadata |->
                               json_dumps(mem[i].metadata[f])],
               timestamp |-> isoformat(mem[i].timestamp)]]]

\* a write whose failure is raised although the new text reached the file
WriteFile_written(old, new, io) == new

\* open(file, 'w') truncates; a failed dump leaves a partial file
WriteFile(old, new, io) ==
  CASE io = "ok" -> new
    [] io = "open_fails" -> old
    [] OTHER -> PartialFile

\* save_to_disk of the library stored in file name f
save_to_disk(d, f, mem, io) == [d EXCEPT ![f] = WriteFile(@, save_data(mem), io)]

Loadable(file) == file.kind # "partial"

\* load_from_disk on a fresh library
load_from_disk(file) ==
  IF file.kind = "absent" THEN <<>>
  ELSE [i \in DOMAIN file.data |->
         [id |-> file.data[i].id,
          content |-> json_loads(file.data[i].content).v,
          metadata |-> [f \in DOMAIN file.data[i].metadata |->
                          json_loads(file.data[i].metadata[f])],
          timestamp |-> fromisoformat(file.data[i].timestamp)]]

(* ------------------------- suggestions log ------------------------------ *)
SuggestionFields == {"reason", "decided_by", "decision_reason"}

dump_suggestions(sugs) ==
  [kind |-> "json",
   data |-> [i \in DOMAIN sugs |->
              [f \in DOMAIN sugs[i] |->
                 IF f \in SuggestionFields THEN json_dumps(sugs[i][f])
                 ELSE sugs[i][f]]]]

_save_suggestions(d, sugs, io) ==
  [d EXCEPT ![SuggestionsFile] = WriteFile(@, dump_suggestions(sugs), io)]

_load_suggestions(file) ==
  IF file.kind = "absent" THEN <<>>
  ELSE [i \in DOMAIN file.data |->
         [f \in DOMAIN file.data[i] |->
            IF f \in SuggestionFields THEN json_loads(file.data[i][f])
            ELSE file.data[i][f]]]

(* ----------------------------- results ---------------------------------- *)
\* a returned dict (its 'status', the id it carries, its message), or the
\* exception that left the call (status "raised", message the exception type)
Result(op, status, id, message) ==
  [op |-> op, status |-> status, id |-> id, message |-> message,
   args |-> <<>>, report |-> <<>>]
Raised(op, exc) == Result(op, "raised", "", exc)
\* a call that returns a text or prints lines: its arguments, the text, and
\* the list the text was made of or the lines printed
Returned(op, args, message, report) ==
  [op |-> op, status |-> "ok", id |-> "", message |-> message,
   args |-> args, report |-> report]

(* ------------------------------- Init ----------------------------------- *)
Init ==
  /\ memories = [p \in Platforms |-> <<>>]
  /\ shared_memories = <<>>
  /\ pending_suggestions = <<>>
  /\ disk = [f \in Files |-> NoFile]
  /\ result = Result("init", "ok", "", "")
  /\ threads = <<>>

(* ------------------------ sovereign memory ------------------------------ *)
\* every platform id resolved to one and the same library
get_platform_memory_shared(p) == "chatgpt"

\* the key of the library get_platform_memory returns for a registered id
get_platform_memory(p) == p

\* platform_id in self.platform_memories
platform_memories_has(p) == p \in Platforms

\* a lookup of the platform's name that has a default: platforms.get(id, {})
platforms_has_default(p) == TRUE

\* self.platform_memory.platforms[platform_id] finds an entry
platforms_has(p) == p \in Platforms

\* an id made from the size with no 1 added
NextMemoryId_size(mem) == "memory_" \o ToString(Len(mem))

\* f"memory_{len(self.archiver.library.memories) + 1}"
NextMemoryId(mem) == "memory_" \o ToString(Len(mem) + 1)

\* SimpleAIMemoryInterface.ai_save_memory's metadata
AiMetadata(memory_type, important) ==
  [type |-> PyStr(memory_type), important |-> PyBool(important),
   source |-> PyStr("ai_autonomous")]

\* ai_sovereign_save -> save_platform_memory -> ai_save_memory -> store
ai_sovereign_save(p, content, memory_type, important, now, io) ==
  /\ UNCHANGED <<shared_memories, pending_suggestions, threads>>
  /\ IF ~platform_memories_has(p)
       THEN /\ result' = Raised("save", "ValueError")
            /\ UNCHANGED <<memories, disk>>
       ELSE LET lib == get_platform_memory(p)
                memory_id == NextMemoryId(memories[lib])
                mem == MemoryLibrary_store(memories[lib], memory_id, content,
                                           AiMetadata(memory_type, important), now)
            IN /\ Len(memories[lib]) < MaxMemories
               /\ memories' = [memories EXCEPT ![lib] = mem]
               /\ disk' = save_to_disk(disk, memory_file(lib), mem, io)
               /\ result' = IF io = "ok"
                              THEN Result("save", "ok", memory_id, "")
                              ELSE Raised("save", "OSError")

\* ai_sovereign_recall -> get_platform_memory -> ai_recall_memories
ai_sovereign_recall(p, query) ==
  /\ UNCHANGED <<memories, shared_memories, pending_suggestions, disk, threads>>
  /\ IF ~platform_memories_has(p)
       THEN result' = Raised("recall", "ValueError")
       ELSE LET recalled == ai_recall_memories(memories[get_platform_memory(p)], query)
            IN result' = Returned("recall", <<p, query>>, recalled.text,
                                  recalled.memories)

\* a review that deletes the records it would discard and saves the library
purge_unimportant_deleting(p) ==
  /\ UNCHANGED <<shared_memories, pending_suggestions, threads>>
  /\ IF ~platform_memories_has(p)
       THEN /\ result' = Raised("purge", "ValueError")
            /\ UNCHANGED <<memories, disk>>
       ELSE LET mem == memories[get_platform_memory(p)]
                kept == SelectSeq(mem, LAMBDA r : decide_action(retrieve(r)) = "KEEP")
            IN /\ result' = Returned("purge", <<p>>, "", verdicts(mem))
               /\ memories' = [memories EXCEPT ![p] = kept]
               /\ disk' = save_to_disk(disk, memory_file(p), kept, "ok")

\* get_platform_memory(platform_id).librarian.purge_unimportant()
purge_unimportant(p) ==
  /\ UNCHANGED <<shared_memories, pending_suggestions, threads>>
  /\ IF ~platform_memories_has(p)
       THEN /\ result' = Raised("purge", "ValueError")
            /\ UNCHANGED <<memories, disk>>
       ELSE /\ result' = Returned("purge", <<p>>, "",
                                  verdicts(memories[get_platform_memory(p)]))
            /\ UNCHANGED <<memories, disk>>

(* ---------------------- shared collaboration ---------------------------- *)
\* an id made from the number of suggestions still pending
NextSuggestionId_pending(sugs) ==
  "suggest_" \o ToString(Cardinality({i \in DOMAIN sugs : sugs[i].status = "pending"}) + 1)

\* f"suggest_{len(self.pending_suggestions) + 1}"
NextSuggestionId(sugs) == "suggest_" \o ToString(Len(sugs) + 1)

human_suggest_memory(content, reason, now, io) ==
  /\ Len(pending_suggestions) < MaxSuggestions
  /\ LET suggestion_id == NextSuggestionId(pending_suggestions)
         suggestion == [suggestion_id |-> suggestion_id,
                        content |-> content,
                        reason |-> reason,
                        urgency |-> "low",
                        timestamp |-> isoformat(now),
                        status |-> "pending",
                        decided_by |-> PyNone,
                        decision_reason |-> PyNone]
         sugs == Append(pending_suggestions, suggestion)
     IN /\ pending_suggestions' = sugs
        /\ disk' = _save_suggestions(disk, sugs, io)
        /\ result' = IF io = "ok"
                       THEN Result("suggest", "suggested", suggestion_id, "")
                       ELSE Raised("suggest", "OSError")
  /\ UNCHANGED <<memories, shared_memories, threads>>

SuggestionIds(sugs) == {sugs[i].suggestion_id : i \in DOMAIN sugs}

\* a lookup that falls back to the first suggestion instead of None
FindSuggestion_default(sugs, sid) ==
  LET hits == {i \in DOMAIN sugs : sugs[i].suggestion_id = sid}
  IN IF hits = {} THEN (IF sugs = <<>> THEN 0 ELSE 1)
     ELSE CHOOSE i \in hits : \A j \in hits : i <= j

\* next((s for s in self.pending_suggestions if ...), None): the index of the
\* first match, 0 for None
FindSuggestion(sugs, sid) ==
  LET hits == {i \in DOMAIN sugs : sugs[i].suggestion_id = sid}
  IN IF hits = {} THEN 0 ELSE CHOOSE i \in hits : \A j \in hits : i <= j

\* f"shared_{len(self.shared_library.memories) + 1}"
NextSharedId(mem) == "shared_" \o ToString(Len(mem) + 1)

SharedMetadata(p, reason, sid) ==
  [type |-> PyStr("collaboration"),
   suggested_by |-> PyStr("human"),
   accepted_by |-> PyStr(p),
   acceptance_reason |-> reason,
   original_suggestion_id |-> PyStr(sid)]

\* suggestion['status'] = ...; ['decided_by'] = platform_id; ['decision_reason'] = reason
Decide(sug, status, p, reason) ==
  [sug EXCEPT !.status = status, !.decided_by = PyStr(p),
              !.decision_reason = reason]

\* a call that goes on to the assignments although store raised
after_store_always(io1, before, after) == after

\* the statements after shared_library.store(...) run only when it returned:
\* the suggestions as they are when the call ends
after_store(io1, before, after) == IF io1 = "ok" THEN after ELSE before

\* the whole call; io1 is the outcome of the shared library's save_to_disk,
\* io2 that of _save_suggestions
ai_decide_on_suggestion(p, sid, decision, reason, now, io1, io2) ==
  /\ UNCHANGED <<memories, threads>>
  /\ LET i == FindSuggestion(pending_suggestions, sid)
     IN IF i = 0
          THEN /\ result' = Result("decide", "error", "", "Suggestion not found")
               /\ UNCHANGED <<shared_memories, pending_suggestions, disk>>
        ELSE IF ~platforms_has(p)
          THEN /\ result' = Raised("decide", "KeyError")
               /\ UNCHANGED <<shared_memories, pending_suggestions, disk>>
        ELSE IF Upper(decision) = "ACCEPT"
          THEN /\ Len(shared_memories) < MaxShared
               /\ LET memory_id == NextSharedId(shared_memories)
                      mem == MemoryLibrary_store(shared_memories, memory_id,
                               pending_suggestions[i].content,
                               SharedMetadata(p, reason, sid), now)
                      sugs == [pending_suggestions EXCEPT
                                 ![i] = Decide(@, "accepted", p, reason)]
                      d1 == save_to_disk(disk, SharedFile, mem, io1)
                  IN /\ shared_memories' = mem
                     /\ pending_suggestions' =
                          after_store(io1, pending_suggestions, sugs)
                     /\ IF io1 # "ok"
                          THEN /\ disk' = d1
                               /\ result' = Raised("decide", "OSError")
                          ELSE /\ disk' = _save_suggestions(d1, sugs, io2)
                               /\ result' = IF io2 = "ok"
                                    THEN Result("decide", "accepted", memory_id, "")
                                    ELSE Raised("decide", "OSError")
          ELSE LET sugs == [pending_suggestions EXCEPT
                              ![i] = Decide(@, "rejected", p, reason)]
               IN /\ pending_suggestions' = sugs
                  /\ disk' = _save_suggestions(disk, sugs, io2)
                  /\ result' = IF io2 = "ok"
                       THEN Result("decide", "rejected", "", "")
                       ELSE Raised("decide", "OSError")
                  /\ UNCHANGED shared_memories

\* a history that lists only the suggestions still pending
get_suggestion_history_pending ==
  SelectSeq(pending_suggestions, LAMBDA sug : sug.status = "pending")

\* get_suggestion_history(): return self.pending_suggestions
get_suggestion_history == pending_suggestions

(* --------------------- SovereignCollaborationSystem() ------------------- *)
\* a new system object is built from the files
Restart ==
  /\ \A f \in Files : Loadable(disk[f])
  /\ memories' = [p \in Platforms |-> load_from_disk(disk[memory_file(p)])]
  /\ shared_memories' = load_from_disk(disk[SharedFile])
  /\ pending_suggestions' = _load_suggestions(disk[SuggestionsFile])
  /\ result' = Result("restart", "ok", "", "")
  /\ UNCHANGED <<disk, threads>>

\* json.load raises on a file that is not valid JSON: no system object results
RestartFails ==
  /\ \E f \in Files : ~Loadable(disk[f])
  /\ result' = Raised("restart", "JSONDecodeError")
  /\ UNCHANGED <<memories, shared_memories, pending_suggestions, disk, threads>>

(* ------------------------------ calls ----------------------------------- *)
Save == \E p \in PlatformIds, c \in SaveCases :
          ai_sovereign_save(p, c.content, c.memory_type, c.important, c.now, "ok")

\* the call made when n suggestions have been proposed
SuggestCaseAt(n) == SuggestCases[(n % Len(SuggestCases)) + 1]

Suggest ==
  LET c == SuggestCaseAt(Len(pending_suggestions))
  IN human_suggest_memory(c.content, c.reason, c.now, "ok")

\* every id the log can hold, and one it never holds
AllSuggestionIds == {"suggest_" \o ToString(n) : n \in 1..(MaxSuggestions + 1)}

DecideCall == \E c \in DecideCases, sid \in AllSuggestionIds, d \in Decisions :
                ai_decide_on_suggestion(c.platform_id, sid, d, c.reason, c.now,
                                        "ok", "ok")

\* the hub while the platform libraries are exercised: few suggestions, one
\* registered and one unregistered decider
FrameDecideCases == {c \in DecideCases : c.platform_id # "chatgpt"}

SuggestFrame == Len(pending_suggestions) < MaxFrame /\ Suggest

DecideFrame == \E c \in FrameDecideCases, sid \in AllSuggestionIds,
                  d \in {"ACCEPT", "REJECT"} :
                 ai_decide_on_suggestion(c.platform_id, sid, d, c.reason, c.now,
                                         "ok", "ok")

\* the queries of a recall: none, one word in another case, one letter that
\* two contents hold, a word no content holds
Queries == {"", "COFFEE", "T", "latte"}

RecallCall == \E p \in PlatformIds, q \in Queries : ai_sovereign_recall(p, q)

PurgeCall == \E p \in PlatformIds : purge_unimportant(p)

(* --------------------------- specifications ----------------------------- *)
\* the whole system, called sequentially, the file system healthy
Next == Save \/ SuggestFrame \/ DecideFrame \/ Restart

Spec == Init /\ [][Next]_vars

\* the collaboration hub alone, every input
NextHub == Suggest \/ DecideCall \/ Restart

SpecHub == Init /\ [][NextHub]_vars

\* the hub resolved by one platform that gives the decision word it typed
\* as its reason
DecideWord == \E sid \in AllSuggestionIds, d \in Decisions :
                ai_decide_on_suggestion("claude", sid, d, PyStr(d),
                                        [sec |-> 9, us |-> 0], "ok", "ok")

NextDecision == Suggest \/ DecideWord \/ Restart

SpecDecision == Init /\ [][NextDecision]_vars

\* the outcomes of the two writes of a resolution: the second write is
\* reached only when the first succeeded
DecideIOCases == {<<"ok", io2>> : io2 \in IOOutcomes}
                   \cup {<<io1, "ok">> : io1 \in IOOutcomes}

\* the hub on a file system whose writes can fail: resolutions of the
\* suggestions it holds
DecideFault == \E c \in {x \in DecideCases : x.platform_id = "claude"},
                  sid \in SuggestionIds(pending_suggestions),
                  d \in {"ACCEPT", "REJECT"}, io \in DecideIOCases :
                 ai_decide_on_suggestion(c.platform_id, sid, d, c.reason, c.now,
                                         io[1], io[2])

NextHubFault == Suggest \/ DecideFault \/ Restart \/ RestartFails

SpecHubFault == Init /\ [][NextHubFault]_vars

\* the platform libraries alone: saves, recalls and reviews
NextLibrary == Save \/ RecallCall \/ PurgeCall \/ Restart

SpecLibrary == Init /\ [][NextLibrary]_vars

\* every call that names a platform, on the whole system
RecallFrame == \E p \in PlatformIds : ai_sovereign_recall(p, "")

SaveFrame == \E p \in PlatformIds, c \in {x \in SaveCases : x.memory_type = "general"} :
               ai_sovereign_save(p, c.content, c.memory_type, c.important, c.now, "ok")

NextIdentity == SaveFrame \/ RecallFrame \/ SuggestFrame \/ DecideFrame

SpecIdentity == Init /\ [][NextIdentity]_vars

\* the platform libraries on a file system whose writes can fail
SaveFault == \E p \in Platforms, c \in SaveCases, io \in IOOutcomes :
               ai_sovereign_save(p, c.content, c.memory_type, c.important, c.now, io)

NextFault == SaveFault \/ Restart \/ RestartFails

SpecFault == Init /\ [][NextFault]_vars

(* ---------------------- the librarian's decision ------------------------ *)
(* decide_action called on its own: the argument of the call in progress is *)
(* the local variable of the one thread, the verdict is what it returns.    *)
TypeValues == {PyStr("preference"), PyStr("general"), PyStr("Preference"),
               PyBool(TRUE), PyNone}
ImportantValues == {PyBool(TRUE), PyBool(FALSE), PyStr("yes"), PyStr("True"),
                    PyInt(1), PyInt(0), PyNone}

\* metadata dicts with and without each of the two keys
MetadataDicts ==
  {PyDict([type |-> t, important |-> i]) : t \in TypeValues, i \in ImportantValues}
    \cup {PyDict([type |-> t]) : t \in TypeValues}
    \cup {PyDict([important |-> i]) : i \in ImportantValues}
    \cup {PyDict(<<>>)}

\* values of the 'metadata' key that are not dicts
NonDictMetadata == {PyNone, PyStr("preference"), PyBool(TRUE), PyInt(1)}

\* the arguments of decide_action: no record, an empty one, one without
\* metadata, and records with each metadata value
MemoryData ==
  {PyNone, PyDict(<<>>), PyDict([content |-> PyStr("tea")])}
    \cup {PyDict([content |-> PyStr("tea"), metadata |-> m]) :
            m \in MetadataDicts \cup NonDictMetadata}

InitLibrarian ==
  /\ memories = [p \in Platforms |-> <<>>]
  /\ shared_memories = <<>>
  /\ pending_suggestions = <<>>
  /\ disk = [f \in Files |-> NoFile]
  /\ result = Result("init", "ok", "", "")
  /\ \E x \in MemoryData : threads = <<[pc |-> "call", memory_data |-> x]>>

\* the call returns its verdict
DecideActionCall ==
  /\ threads[1].pc = "call"
  /\ result' = Result("decide_action", "ok", "", decide_action(threads[1].memory_data))
  /\ threads' = <<[threads[1] EXCEPT !.pc = "returned"]>>
  /\ UNCHANGED <<memories, shared_memories, pending_suggestions, disk>>

\* the next call, with another argument
NextMemoryData ==
  /\ threads[1].pc = "returned"
  /\ \E x \in MemoryData : threads' = <<[pc |-> "call", memory_data |-> x]>>
  /\ UNCHANGED <<memories, shared_memories, pending_suggestions, disk, result>>

NextLibrarian == DecideActionCall \/ NextMemoryData

SpecLibrarian == InitLibrarian /\ [][NextLibrarian]_vars

(* ------------------------ concurrent execution -------------------------- *)
(* The same calls run by threads with no lock between them: a thread can be *)
(* preempted between any two statements, so each call is a sequence of      *)
(* steps, one per statement that reads or writes the shared objects.        *)
Threads == 1..NThreads

IdleThread ==
  [pc |-> "idle", op |-> "", platform_id |-> "", content |-> "",
   memory_type |-> "", important |-> FALSE, now |-> [sec |-> 0, us |-> 0],
   sid |-> "", decision |-> "", reason |-> PyNone, i |-> 0,
   found_status |-> "", memory_id |-> "", status |-> ""]

InitConc ==
  /\ memories = [p \in Platforms |-> <<>>]
  /\ shared_memories = <<>>
  /\ pending_suggestions = <<>>
  /\ disk = [f \in Files |-> NoFile]
  /\ result = Result("init", "ok", "", "")
  /\ threads = [t \in Threads |-> IdleThread]

\* ai_save_memory, line 105: the id is computed from the size read now
SaveMakeId(t) ==
  /\ threads[t].pc = "idle"
  /\ \E p \in Platforms, c \in SaveCases :
       threads' = [threads EXCEPT ![t] =
         [@ EXCEPT !.pc = "store", !.op = "save", !.platform_id = p,
                   !.content = c.content, !.memory_type = c.memory_type,
                   !.important = c.important, !.now = c.now,
                   !.memory_id = NextMemoryId(memories[get_platform_memory(p)])]]
  /\ UNCHANGED <<memories, shared_memories, pending_suggestions, disk, result>>

\* MemoryLibrary.store, line 14
SaveStore(t) ==
  LET th == threads[t]
      lib == get_platform_memory(th.platform_id)
  IN /\ th.pc = "store" /\ th.op = "save"
     /\ memories' = [memories EXCEPT ![lib] =
          MemoryLibrary_store(@, th.memory_id, th.content,
                              AiMetadata(th.memory_type, th.important), th.now)]
     /\ threads' = [threads EXCEPT ![t].pc = "persist"]
     /\ UNCHANGED <<shared_memories, pending_suggestions, disk, result>>

\* PersistentMemoryLibrary.store, line 54: the library as it is now is written
SavePersist(t) ==
  LET th == threads[t]
      lib == get_platform_memory(th.platform_id)
  IN /\ th.pc = "persist" /\ th.op = "save"
     /\ disk' = save_to_disk(disk, memory_file(lib), memories[lib], "ok")
     /\ threads' = [threads EXCEPT ![t].pc = "done", ![t].status = "ok"]
     /\ UNCHANGED <<memories, shared_memories, pending_suggestions, result>>

\* ai_decide_on_suggestion, lines 224-232: the lookup and the branch
DecideFind(t) ==
  /\ threads[t].pc = "idle"
  /\ \E c \in DecideCases, sid \in AllSuggestionIds, d \in {"ACCEPT", "REJECT"} :
       LET i == FindSuggestion(pending_suggestions, sid)
           call == [threads[t] EXCEPT !.op = "decide",
                      !.platform_id = c.platform_id, !.sid = sid,
                      !.decision = d, !.reason = c.reason, !.now = c.now,
                      !.i = i]
       IN threads' = [threads EXCEPT ![t] =
            IF i = 0
              THEN [call EXCEPT !.pc = "done", !.status = "error"]
            ELSE IF c.platform_id \notin Platforms
              THEN [call EXCEPT !.pc = "done", !.status = "raised",
                      !.found_status = pending_suggestions[i].status]
            ELSE [call EXCEPT
                    !.pc = IF Upper(d) = "ACCEPT" THEN "make_id" ELSE "transition",
                    !.found_status = pending_suggestions[i].status]]
  /\ UNCHANGED <<memories, shared_memories, pending_suggestions, disk, result>>

\* line 234
DecideMakeId(t) ==
  /\ threads[t].pc = "make_id"
  /\ threads' = [threads EXCEPT ![t].pc = "store",
                                ![t].memory_id = NextSharedId(shared_memories)]
  /\ UNCHANGED <<memories, shared_memories, pending_suggestions, disk, result>>

\* line 243, MemoryLibrary.store
DecideStore(t) ==
  LET th == threads[t]
  IN /\ th.pc = "store" /\ th.op = "decide"
     /\ shared_memories' =
          MemoryLibrary_store(shared_memories, th.memory_id,
                              pending_suggestions[th.i].content,
                              SharedMetadata(th.platform_id, th.reason, th.sid),
                              th.now)
     /\ threads' = [threads EXCEPT ![t].pc = "persist"]
     /\ UNCHANGED <<memories, pending_suggestions, disk, result>>

\* line 243, save_to_disk of the shared library
DecidePersist(t) ==
  /\ threads[t].pc = "persist" /\ threads[t].op = "decide"
  /\ disk' = save_to_disk(disk, SharedFile, shared_memories, "ok")
  /\ threads' = [threads EXCEPT ![t].pc = "transition"]
  /\ UNCHANGED <<memories, shared_memories, pending_suggestions, result>>

\* lines 245-247 and 256-258
DecideTransition(t) ==
  LET th == threads[t]
      status == IF Upper(th.decision) = "ACCEPT" THEN "accepted" ELSE "rejected"
  IN /\ th.pc = "transition"
     /\ pending_suggestions' = [pending_suggestions EXCEPT
          ![th.i] = Decide(@, status, th.platform_id, th.reason)]
     /\ threads' = [threads EXCEPT ![t].pc = "save_suggestions",
                                   ![t].status = status]
     /\ UNCHANGED <<memories, shared_memories, disk, result>>

\* line 265
DecideSaveSuggestions(t) ==
  /\ threads[t].pc = "save_suggestions"
  /\ disk' = _save_suggestions(disk, pending_suggestions, "ok")
  /\ threads' = [threads EXCEPT ![t].pc = "done"]
  /\ UNCHANGED <<memories, shared_memories, pending_suggestions, result>>

NextConc ==
  \/ Suggest
  \/ \E t \in Threads :
       \/ SaveMakeId(t) \/ SaveStore(t) \/ SavePersist(t)
       \/ DecideFind(t) \/ DecideMakeId(t) \/ DecideStore(t)
       \/ DecidePersist(t) \/ DecideTransition(t) \/ DecideSaveSuggestions(t)

SpecConc == InitConc /\ [][NextConc]_vars

(* ------------------------------ claims ---------------------------------- *)
\* the shared records whose provenance names suggestion sid
LinkedRecords(sid) ==
  {j \in DOMAIN shared_memories :
     shared_memories[j].metadata.original_suggestion_id = PyStr(sid)}

\* C1: a call of ai_decide_on_suggestion on a suggestion whose status is not
\* pending does not succeed, leaves the suggestion (status, decided_by,
\* decision_reason) as it was and adds no record to the shared library.
C1_AlreadyResolved ==
  [][\A c \in DecideCases, sid \in AllSuggestionIds, d \in Decisions :
       LET i == FindSuggestion(pending_suggestions, sid)
       IN (/\ i # 0
           /\ pending_suggestions[i].status # "pending"
           /\ ai_decide_on_suggestion(c.platform_id, sid, d, c.reason, c.now,
                                      "ok", "ok"))
          => /\ result'.status \notin {"accepted", "rejected"}
             /\ pending_suggestions' = pending_suggestions
             /\ shared_memories' = shared_memories]_vars

\* C2: a suggestion that is accepted or rejected keeps that status in every
\* later state.
C2_OneWayStatus ==
  [][\A i \in DOMAIN pending_suggestions :
       pending_suggestions[i].status # "pending"
       => /\ i \in DOMAIN pending_suggestions'
          /\ pending_suggestions'[i].status = pending_suggestions[i].status]_vars

\* C3: every accepted suggestion has exactly one shared record linked to it,
\* with the suggestion's content and accepted_by the deciding platform, and no
\* suggestion id is linked from two shared records.
C3_AcceptedOneRecord ==
  /\ \A i \in DOMAIN pending_suggestions :
       LET s == pending_suggestions[i]
       IN s.status = "accepted"
          => /\ Cardinality(LinkedRecords(s.suggestion_id)) = 1
             /\ \A j \in LinkedRecords(s.suggestion_id) :
                  /\ shared_memories[j].content = s.content
                  /\ shared_memories[j].metadata.accepted_by = s.decided_by
  /\ \A sid \in AllSuggestionIds : Cardinality(LinkedRecords(sid)) <= 1

\* C4: a rejected suggestion has no shared record derived from it.
C4_RejectedNoRecord ==
  \A i \in DOMAIN pending_suggestions :
    pending_suggestions[i].status = "rejected"
    => LinkedRecords(pending_suggestions[i].suggestion_id) = {}

\* C5: ai_sovereign_save under one platform leaves every other platform's
\* library and file, the shared library and its file as they were.
C5_Isolation ==
  [][\A p \in Platforms, c \in SaveCases :
       ai_sovereign_save(p, c.content, c.memory_type, c.important, c.now, "ok")
       => /\ \A q \in Platforms \ {p} :
               /\ memories'[q] = memories[q]
               /\ disk'[memory_file(q)] = disk[memory_file(q)]
          /\ shared_memories' = shared_memories
          /\ disk'[SharedFile] = disk[SharedFile]]_vars

\* a save has just returned, both platforms hold different records and the
\* shared library is not empty
C5_Witness ==
  /\ result.op = "save" /\ result.status = "ok"
  /\ memories["chatgpt"] # <<>> /\ memories["claude"] # <<>>
  /\ memories["chatgpt"] # memories["claude"]
  /\ shared_memories # <<>>

\* the calls of kind op that have returned
Finished(op) == {t \in DOMAIN threads : threads[t].op = op /\ threads[t].pc = "done"}

\* C6: when all the concurrent calls have completed, the ai_sovereign_save
\* calls on one platform got distinct ids and the platform's library holds one
\* record per call.
C6_NoLostWrites ==
  (\A t \in DOMAIN threads : threads[t].pc = "done")
  => \A p \in Platforms :
       LET calls == {t \in Finished("save") : threads[t].platform_id = p}
       IN /\ \A t1, t2 \in calls :
               t1 # t2 => threads[t1].memory_id # threads[t2].memory_id
          /\ Len(memories[p]) = Cardinality(calls)

\* C7: two calls of ai_decide_on_suggestion that both found the same
\* suggestion pending never both succeed, and at most one shared record
\* results from them.
C7_OneResolution ==
  \A t1, t2 \in Finished("decide") :
    (/\ t1 # t2
     /\ threads[t1].sid = threads[t2].sid
     /\ threads[t1].found_status = "pending"
     /\ threads[t2].found_status = "pending")
    => /\ ~(/\ threads[t1].status \in {"accepted", "rejected"}
            /\ threads[t2].status \in {"accepted", "rejected"})
       /\ Cardinality(LinkedRecords(threads[t1].sid)) <= 1

\* C8: with every store call successful, each library's file loads to exactly
\* the records the library holds (content, metadata and timestamp).
C8_RoundTrip ==
  /\ \A p \in Platforms :
       /\ Loadable(disk[memory_file(p)])
       /\ load_from_disk(disk[memory_file(p)]) = memories[p]
  /\ Loadable(disk[SharedFile])
  /\ load_from_disk(disk[SharedFile]) = shared_memories

\* a system rebuilt from the files holds two records, one stamped with
\* microseconds and one without
C8_Witness ==
  /\ result.op = "restart"
  /\ \E p \in Platforms :
       /\ Len(memories[p]) = 2
       /\ \E i, j \in DOMAIN memories[p] :
            memories[p][i].timestamp.us = 0 /\ memories[p][j].timestamp.us # 0
  /\ shared_memories # <<>>

\* C9 as claimed: a store whose write fails raises, keeps the record in the
\* library, and the file still holds its previous content.
C9_PreviousStateKept ==
  [][\A p \in Platforms, c \in SaveCases, io \in IOOutcomes \ {"ok"} :
       ai_sovereign_save(p, c.content, c.memory_type, c.important, c.now, io)
       => /\ result'.status = "raised"
          /\ NextMemoryId(memories[p]) \in Keys(memories'[p])
          /\ disk'[memory_file(p)] = disk[memory_file(p)]]_vars

\* C9 as amended: a store whose write fails raises and keeps the record in
\* the library; the file holds its previous content or a truncated text that
\* does not load, and never the new record.
C9_PersistFailed ==
  [][\A p \in Platforms, c \in SaveCases, io \in IOOutcomes \ {"ok"} :
       ai_sovereign_save(p, c.content, c.memory_type, c.important, c.now, io)
       => /\ result'.status = "raised"
          /\ NextMemoryId(memories[p]) \in Keys(memories'[p])
          /\ \/ disk'[memory_file(p)] = disk[memory_file(p)]
             \/ ~Loadable(disk'[memory_file(p)])]_vars

\* a save has raised, its record is in the library and the file is truncated
C9_Witness ==
  /\ result = Raised("save", "OSError")
  /\ \E p \in Platforms :
       /\ Len(memories[p]) = 2
       /\ disk[memory_file(p)] = PartialFile

\* C10: ai_decide_on_suggestion with an id no suggestion has returns the
\* error result 'Suggestion not found' and changes neither the suggestion
\* list, the shared library nor any file.
C10_SuggestionNotFound ==
  [][\A c \in DecideCases, sid \in AllSuggestionIds, d \in Decisions :
       (/\ sid \notin SuggestionIds(pending_suggestions)
        /\ ai_decide_on_suggestion(c.platform_id, sid, d, c.reason, c.now,
                                   "ok", "ok"))
       => /\ result' = Result("decide", "error", "", "Suggestion not found")
          /\ UNCHANGED <<pending_suggestions, shared_memories, disk>>]_vars

\* the error was returned by a hub that holds suggestions and shared records
C10_Witness ==
  /\ result = Result("decide", "error", "", "Suggestion not found")
  /\ pending_suggestions # <<>>
  /\ shared_memories # <<>>

\* the call raised for the unknown id and no store, file or suggestion changed
UnknownIdentityFailure ==
  /\ result'.status = "raised"
  /\ result'.message \in {"ValueError", "KeyError"}
  /\ UNCHANGED <<memories, shared_memories, pending_suggestions, disk>>

\* C11: a save, a recall, or the resolution of an existing suggestion in the
\* name of an id that is not registered raises (ValueError from
\* get_platform_memory, KeyError from the lookup of the platform's name) and
\* changes no library, no shared record, no suggestion and no file.
C11_UnknownIdentity ==
  [][\A p \in PlatformIds \ Platforms :
       /\ \A c \in SaveCases :
            ai_sovereign_save(p, c.content, c.memory_type, c.important, c.now, "ok")
              => UnknownIdentityFailure
       /\ \A q \in Queries : ai_sovereign_recall(p, q) => UnknownIdentityFailure
       /\ \A c \in DecideCases, sid \in SuggestionIds(pending_suggestions),
             d \in Decisions :
            (c.platform_id = p /\
             ai_decide_on_suggestion(p, sid, d, c.reason, c.now, "ok", "ok"))
              => UnknownIdentityFailure]_vars

\* an unregistered id tried to resolve an existing suggestion while libraries
\* and suggestions hold data
C11_Witness ==
  /\ result = Raised("decide", "KeyError")
  /\ pending_suggestions # <<>>
  /\ \E p \in Platforms : memories[p] # <<>>

UniqueSuggestionIds(sugs) ==
  \A i, j \in DOMAIN sugs : i # j => sugs[i].suggestion_id # sugs[j].suggestion_id

\* C12: every proposal returns 'suggested' and appends exactly one suggestion,
\* pending, with decided_by and decision_reason None, whose id no earlier
\* suggestion has; the ids of the log are pairwise different after every step,
\* the reload of the log from its file included.
C12_ProposeFreshId ==
  [][/\ \A n \in DOMAIN SuggestCases :
          LET c == SuggestCases[n]
          IN human_suggest_memory(c.content, c.reason, c.now, "ok") =>
               LET new == pending_suggestions'[Len(pending_suggestions')]
               IN /\ result'.status = "suggested"
                  /\ result'.id = new.suggestion_id
                  /\ Len(pending_suggestions') = Len(pending_suggestions) + 1
                  /\ SubSeq(pending_suggestions', 1, Len(pending_suggestions))
                       = pending_suggestions
                  /\ new.content = c.content
                  /\ new.status = "pending"
                  /\ new.decided_by = PyNone
                  /\ new.decision_reason = PyNone
                  /\ new.suggestion_id \notin SuggestionIds(pending_suggestions)
     /\ UniqueSuggestionIds(pending_suggestions')]_vars

\* a proposal was made after an earlier suggestion had been resolved
C12_Witness ==
  /\ result.op = "suggest"
  /\ Len(pending_suggestions) = 2
  /\ pending_suggestions[1].status # "pending"
  /\ pending_suggestions[2].status = "pending"

\* C13: no step removes or reorders a suggestion: the history after a step
\* holds every suggestion of the history before it at the same place with
\* the same id and content and at most one more at the end; the k-th entry is
\* the k-th proposal made; and the log file lists the same ids in that order.
C13_AppendOnlyLog ==
  [][LET before == get_suggestion_history
         after == get_suggestion_history'
         logged == _load_suggestions(disk'[SuggestionsFile])
     IN /\ Len(before) <= Len(after)
        /\ Len(after) <= Len(before) + 1
        /\ \A i \in DOMAIN before :
             /\ after[i].suggestion_id = before[i].suggestion_id
             /\ after[i].content = before[i].content
        /\ \A k \in DOMAIN after :
             /\ after[k].suggestion_id = "suggest_" \o ToString(k)
             /\ after[k].content = SuggestCaseAt(k - 1).content
        /\ Len(logged) = Len(after)
        /\ \A k \in DOMAIN after :
             logged[k].suggestion_id = after[k].suggestion_id]_vars

\* two proposals, both resolved, the second before the first was rejected,
\* and the hub reopened from its files
C13_Witness ==
  /\ result.op = "restart"
  /\ Len(get_suggestion_history) = 2
  /\ get_suggestion_history[1].status = "rejected"
  /\ get_suggestion_history[2].status = "accepted"

\* the metadata mapping of a record, an empty mapping when the record or its
\* metadata is missing or the metadata is not a mapping
MetadataMapping(x) ==
  IF x.k = "dict" /\ "metadata" \in DOMAIN x.v /\ x.v.metadata.k = "dict"
    THEN x.v.metadata.v ELSE <<>>

\* C14: decide_action returns KEEP exactly when the record's metadata is a
\* mapping whose type is the string "preference" or whose important is the
\* boolean True itself; for no record, no metadata, metadata that is not a
\* mapping, important "yes" or important 1 it returns DISCARD.
C14_KeepIffPreferenceOrImportant ==
  (result.op = "decide_action" /\ threads[1].pc = "returned") =>
    LET md == MetadataMapping(threads[1].memory_data)
        keep == \/ ("type" \in DOMAIN md /\ md.type = PyStr("preference"))
                \/ ("important" \in DOMAIN md /\ md.important = PyBool(TRUE))
    IN /\ result.message \in {"KEEP", "DISCARD"}
       /\ result.message = "KEEP" <=> keep

\* the librarian discarded a record whose important is the integer 1
C14_Witness ==
  /\ result = Result("decide_action", "ok", "", "DISCARD")
  /\ threads[1].pc = "returned"
  /\ threads[1].memory_data =
       PyDict([content |-> PyStr("tea"),
               metadata |-> PyDict([type |-> PyStr("general"), important |-> PyInt(1)])])

\* C15: purge_unimportant only reports: it prints one verdict, kept or
\* discarded, for every id of the library in the library's order, and the
\* library's ids and records and its file are the same after the call, the
\* records it would discard included.
C15_ReviewOnlyReports ==
  [][\A p \in Platforms :
       purge_unimportant(p) =>
         /\ Len(result'.report) = Len(memories[p])
         /\ \A i \in DOMAIN memories[p] :
              /\ result'.report[i][1] = memories[p][i].id
              /\ result'.report[i][2] \in {"kept", "discarded"}
         /\ memories'[p] = memories[p]
         /\ disk'[memory_file(p)] = disk[memory_file(p)]
         /\ UNCHANGED <<memories, shared_memories, disk>>]_vars

\* a review reported a record as discarded and the record is still in the
\* library and in its file
C15_Witness ==
  /\ result.op = "purge"
  /\ result.status = "ok"
  /\ \E i \in DOMAIN result.report :
       /\ result.report[i][2] = "discarded"
       /\ result.report[i][1] \in Keys(memories[result.args[1]])
       /\ result.report[i][1] \in
            Keys(load_from_disk(disk[memory_file(result.args[1])]))

\* two characters that are the same letter, whatever their case
SameLetter(a, b) ==
  \/ a = b
  \/ \E i \in DOMAIN UppercaseLetters :
       {a, b} = {UppercaseLetters[i], LowercaseLetters[i]}

\* query occurs in content at some offset, letter case ignored
OccursIgnoringCase(query, content) ==
  \E off \in 0..(Len(content) - Len(query)) :
    \A k \in 1..Len(query) : SameLetter(CharAt(query, k), CharAt(content, off + k))

\* C16: a recall with a query returns exactly the records of the library
\* whose content holds the query as a substring, letter case ignored, in the
\* library's order; with the empty query it returns every record, and so
\* does search_memories itself.
C16_SearchExact ==
  /\ (result.op = "recall" /\ result.status = "ok") =>
       LET mem == memories[result.args[1]]
           query == result.args[2]
           found == result.report
           hits == {i \in DOMAIN mem : OccursIgnoringCase(query, mem[i].content)}
       IN /\ Len(found) = Cardinality(hits)
          /\ \A k \in DOMAIN found :
               found[k] = mem[CHOOSE i \in hits : Cardinality({j \in hits : j <= i}) = k]
          /\ query = "" => found = mem
          /\ found = <<>> <=> result.message = "No memories found."
  /\ \A p \in Platforms : search_memories(memories[p], "") = memories[p]

\* a query in upper case found both records of a library of two, in order
C16_Witness ==
  /\ result.op = "recall"
  /\ result.status = "ok"
  /\ result.args[2] = "T"
  /\ Len(memories[result.args[1]]) = 2
  /\ result.report = memories[result.args[1]]
  /\ memories[result.args[1]][1].content # memories[result.args[1]][2].content

\* the ids memory_1 .. memory_n
MemoryIdsUpTo(n) == {"memory_" \o ToString(k) : k \in 1..n}

\* C19: on libraries that start empty and are written only by
\* ai_sovereign_save, called sequentially, the k-th save of a platform
\* returns memory_k, keeps every earlier record as it was and makes the
\* library one larger; after every step, the reload from the file included,
\* the ids of a library of n records are memory_1 .. memory_n, in the
\* library and in its file.
C19_SequentialMemoryIds ==
  [][/\ \A p \in Platforms, c \in SaveCases :
          ai_sovereign_save(p, c.content, c.memory_type, c.important, c.now, "ok") =>
            LET n == Len(memories[p])
            IN /\ result'.status = "ok"
               /\ result'.id = "memory_" \o ToString(n + 1)
               /\ result'.id \notin Keys(memories[p])
               /\ Len(memories'[p]) = n + 1
               /\ SubSeq(memories'[p], 1, n) = memories[p]
               /\ memories'[p][n + 1].id = result'.id
               /\ memories'[p][n + 1].content = c.content
     /\ \A p \in Platforms :
          /\ Keys(memories'[p]) = MemoryIdsUpTo(Len(memories'[p]))
          /\ Keys(load_from_disk(disk'[memory_file(p)])) = Keys(memories'[p])]_vars

\* a library of two records was reopened from its file
C19_Witness ==
  /\ result.op = "restart"
  /\ \E p \in Platforms :
       /\ Len(memories[p]) = 2
       /\ memories[p][1].id = "memory_1"
       /\ memories[p][2].id = "memory_2"

\* the decision is the word ACCEPT in some letter case
IsAcceptWord(d) ==
  /\ Len(d) = Len("ACCEPT")
  /\ \A k \in 1..Len(d) : SameLetter(CharAt(d, k), CharAt("ACCEPT", k))

\* C20: the resolution of an existing suggestion accepts exactly when the
\* decision is ACCEPT in any letter case; for every other word, REJECT or
\* not, the call is not refused: it returns 'rejected', the suggestion
\* becomes rejected with decided_by set, and no shared record is made.
C20_AcceptIgnoringCase ==
  [][\A sid \in SuggestionIds(pending_suggestions), d \in Decisions :
       (/\ result'.op = "decide"
        /\ ai_decide_on_suggestion("claude", sid, d, PyStr(d),
                                   [sec |-> 9, us |-> 0], "ok", "ok")) =>
         LET i == FindSuggestion(pending_suggestions, sid)
         IN IF IsAcceptWord(d)
              THEN /\ result'.status = "accepted"
                   /\ pending_suggestions'[i].status = "accepted"
                   /\ Len(shared_memories') = Len(shared_memories) + 1
              ELSE /\ result'.status = "rejected"
                   /\ pending_suggestions'[i].status = "rejected"
                   /\ pending_suggestions'[i].decided_by = PyStr("claude")
                   /\ shared_memories' = shared_memories
                   /\ disk'[SharedFile] = disk[SharedFile]]_vars

\* one suggestion was accepted by the word 'accept', another rejected by the
\* word 'maybe', and one shared record exists
C20_Witness ==
  /\ Len(shared_memories) = 1
  /\ \E i, j \in DOMAIN pending_suggestions :
       /\ pending_suggestions[i].status = "accepted"
       /\ pending_suggestions[i].decision_reason = PyStr("accept")
       /\ pending_suggestions[j].status = "rejected"
       /\ pending_suggestions[j].decision_reason = PyStr("maybe")

\* the suggestions the log file holds and the records the shared file holds
LoggedSuggestions == _load_suggestions(disk[SuggestionsFile])
StoredSharedRecords == load_from_disk(disk[SharedFile])

\* the shared file holds a record made from suggestion sid
RecordOnDisk(sid) ==
  \E j \in DOMAIN StoredSharedRecords :
    StoredSharedRecords[j].metadata.original_suggestion_id = PyStr(sid)

\* C17 as stated: whatever write failed, every suggestion the log file
\* records as accepted has its record in the shared file.
C17_AcceptedOnDiskHasRecord ==
  \A i \in DOMAIN LoggedSuggestions :
    LoggedSuggestions[i].status = "accepted"
      => RecordOnDisk(LoggedSuggestions[i].suggestion_id)

\* C17: the shared file is written before the log file, so every suggestion
\* the log file records as accepted has its record in the shared file as
\* long as that file is readable; a later write of the shared file that
\* fails after open(file, 'w') leaves it truncated, with no record in it.
C17_AcceptedOnDiskHasRecordIfReadable ==
  Loadable(disk[SharedFile]) => C17_AcceptedOnDiskHasRecord

\* after failed writes: one suggestion is accepted in the log file with its
\* record in the shared file, another has its record in the shared file
\* while the log file still has it pending
C17_Witness ==
  /\ \E i \in DOMAIN LoggedSuggestions :
       /\ LoggedSuggestions[i].status = "accepted"
       /\ RecordOnDisk(LoggedSuggestions[i].suggestion_id)
  /\ \E i \in DOMAIN LoggedSuggestions :
       /\ LoggedSuggestions[i].status = "pending"
       /\ RecordOnDisk(LoggedSuggestions[i].suggestion_id)

\* C18: when the write of the shared file fails during an ACCEPT, the call
\* raises before it touches the suggestion: the suggestions are as they
\* were (a pending one stays pending, decided_by and decision_reason None),
\* the log file is not rewritten, and the new record stays in the shared
\* library in memory.
C18_StoreFailureBeforeTransition ==
  [][\A c \in DecideCases, sid \in SuggestionIds(pending_suggestions),
        io1 \in IOOutcomes \ {"ok"} :
       (/\ result'.status = "raised"
        /\ c.platform_id \in Platforms
        /\ ai_decide_on_suggestion(c.platform_id, sid, "ACCEPT", c.reason, c.now,
                                   io1, "ok")) =>
         LET i == FindSuggestion(pending_suggestions, sid)
             n == Len(shared_memories)
         IN /\ result' = Raised("decide", "OSError")
            /\ pending_suggestions' = pending_suggestions
            /\ pending_suggestions[i].status = "pending" =>
                 /\ pending_suggestions'[i].status = "pending"
                 /\ pending_suggestions'[i].decided_by = PyNone
                 /\ pending_suggestions'[i].decision_reason = PyNone
            /\ disk'[SuggestionsFile] = disk[SuggestionsFile]
            /\ Len(shared_memories') = n + 1
            /\ SubSeq(shared_memories', 1, n) = shared_memories
            /\ shared_memories'[n + 1].content = pending_suggestions[i].content
            /\ shared_memories'[n + 1].metadata.original_suggestion_id = PyStr(sid)]_vars

\* an ACCEPT raised on the shared file: the suggestion is still pending in
\* memory and in the log file, its record is in the shared library in
\* memory and not in the shared file
C18_Witness ==
  /\ result = Raised("decide", "OSError")
  /\ \E i \in DOMAIN pending_suggestions :
       /\ pending_suggestions[i].status = "pending"
       /\ pending_suggestions[i].decided_by = PyNone
       /\ LinkedRecords(pending_suggestions[i].suggestion_id) # {}
       /\ ~RecordOnDisk(pending_suggestions[i].suggestion_id)
       /\ i \in DOMAIN LoggedSuggestions
       /\ LoggedSuggestions[i].status = "pending"
====
